---- MODULE Spec2Model ----
(***************************************************************************)
(* Model of T06/demo_mnist_mlp.py: the MnistDataset CSV loader and the     *)
(* training / evaluation loop of the __main__ script.                      *)
(*                                                                         *)
(* Abstractions.  A text line is a sequence of one-character strings.      *)
(* Floating point values are exact rationals [num, den].  The network's    *)
(* numeric output is not computed: a batch loss is any value of LossValues *)
(* and a prediction is any class; the learnable parameters are a version   *)
(* counter (weights) and the BatchNorm buffers are the num_batches_tracked *)
(* counter (running).                                                      *)
(***************************************************************************)
EXTENDS Integers, Sequences, FiniteSets, TLC

\* ---- sizes (the script's literals, scaled down) ----
input_nodes == 2      \* 784 in the script
output_nodes == 2     \* 10 in the script
batch_size == 3       \* 128 in the script
epochs == 2           \* 10 in the script
MaxTrain == 5         \* most lines of a training file
MaxTest == 2          \* most lines of a test file
MaxLines == 2         \* most lines of a file of arbitrary lines
MaxFields == input_nodes + 2
LossValues == {1, 2}  \* values criterion(output, target).item() may take

VARIABLES pc, train_file, test_file, train_dataset, test_dataset,
          training, weights, grads, running,
          epoch, pos, batch, train_loss, test_loss, correct, logs,
          hist, preds, plotWritten, weightsWritten, error

vars == <<pc, train_file, test_file, train_dataset, test_dataset,
          training, weights, grads, running,
          epoch, pos, batch, train_loss, test_loss, correct, logs,
          hist, preds, plotWritten, weightsWritten, error>>

\* ---------------------------------------------------------------------
\* Text
\* ---------------------------------------------------------------------
Digits == <<"0", "1", "2", "3", "4", "5", "6", "7", "8", "9">>

IsDigit(c) == \E d \in 1..10 : Digits[d] = c

DigitVal(c) == (CHOOSE d \in 1..10 : Digits[d] = c) - 1

IsSpace(c) == c \in {"\n", " "}

RECURSIVE SplitAcc(_, _, _)
SplitAcc(s, cur, acc) ==
    IF s = <<>> THEN Append(acc, cur)
    ELSE IF Head(s) = "," THEN SplitAcc(Tail(s), <<>>, Append(acc, cur))
    ELSE SplitAcc(Tail(s), Append(cur, Head(s)), acc)

\* record.split(",")
split(record) == SplitAcc(record, <<>>, <<>>)

RECURSIVE LStrip(_)
LStrip(s) == IF s # <<>> /\ IsSpace(Head(s)) THEN LStrip(Tail(s)) ELSE s

RECURSIVE RStrip(_)
RStrip(s) ==
    IF s # <<>> /\ IsSpace(s[Len(s)]) THEN RStrip(SubSeq(s, 1, Len(s) - 1)) ELSE s

Strip(s) == RStrip(LStrip(s))

\* the value of the first k digits of s
RECURSIVE DecimalPrefix(_, _)
DecimalPrefix(s, k) ==
    IF k = 0 THEN 0 ELSE 10 * DecimalPrefix(s, k - 1) + DigitVal(s[k])

DecimalValue(s) == DecimalPrefix(s, Len(s))

\* F(v), with v evaluated once
Apply(F(_), v) == CHOOSE r \in {F(x) : x \in {v}} : TRUE

ParseError == [ok |-> FALSE, value |-> 0]

\* int(text) and the string -> float conversion of np.asfarray, over the
\* alphabet of digits, "x", "," and whitespace: surrounding whitespace is
\* ignored, a non-empty run of digits is its decimal value, anything else
\* raises ValueError.
ParseStripped(t) ==
    IF t = <<>> \/ \E i \in 1..Len(t) : ~IsDigit(t[i])
    THEN ParseError
    ELSE [ok |-> TRUE, value |-> DecimalValue(t)]

ParseNumber(text) == Apply(ParseStripped, Strip(text))

\* ---------------------------------------------------------------------
\* MnistDataset
\* ---------------------------------------------------------------------
NoDataset == [error |-> "unset", features |-> <<>>, targets |-> <<>>]

Failure(exc) == [error |-> exc, features |-> <<>>, targets |-> <<>>]

Normalize_256(v) == [num |-> v, den |-> 256]

\* features / 255.0
Normalize(v) == [num |-> v, den |-> 255]

\* one pass of the loop over data_list: all_values = record.split(","),
\* target = int(all_values[0]), features = np.asfarray(all_values[1:])
ParseRecord(all_values) ==
    [target |-> ParseNumber(all_values[1]),
     features |-> [j \in 1..(Len(all_values) - 1) |-> ParseNumber(all_values[j + 1])]]

RecordFails(r) ==
    \/ ~r.target.ok
    \/ \E j \in 1..Len(r.features) : ~r.features[j].ok

\* np.array of the rows, then torch.tensor(...) / 255.0: rows of different
\* lengths do not make a two-dimensional array
Stack(records) ==
    IF \E i \in 1..Len(records) : RecordFails(records[i])
    THEN Failure("ValueError")
    ELSE IF \E i, k \in 1..Len(records) :
                Len(records[i].features) # Len(records[k].features)
    THEN Failure("ValueError")
    ELSE [error |-> "none",
          features |-> [i \in 1..Len(records) |->
                          [j \in 1..Len(records[i].features) |->
                              Normalize(records[i].features[j].value)]],
          targets |-> [i \in 1..Len(records) |-> records[i].target.value]]

\* MnistDataset.__init__ applied to the lines readlines() returned
MnistDataset(data_list) ==
    Apply(Stack, [i \in 1..Len(data_list) |-> Apply(ParseRecord, split(data_list[i]))])

\* MnistDataset.__len__
DatasetLen(ds) == Len(ds.features)

\* MnistDataset.__getitem__
GetItem(ds, index) == <<ds.features[index], ds.targets[index]>>

\* ---------------------------------------------------------------------
\* Input files
\* ---------------------------------------------------------------------
T0 == <<"0">>
T1 == <<"1">>
T255 == <<"2", "5", "5">>
Tx == <<"x">>
Tempty == <<>>
Tokens == {T0, T255, Tx, Tempty}
NumericTokens == {T0, T1, T255}

TokenValue(t) == CASE t = T0 -> 0 [] t = T1 -> 1 [] t = T255 -> 255

RECURSIVE JoinFields(_)
JoinFields(fields) ==
    IF Len(fields) = 1 THEN fields[1]
    ELSE fields[1] \o <<",">> \o JoinFields(Tail(fields))

\* a line of the file: the fields joined by commas, then the newline
Line(fields) == JoinFields(fields) \o <<"\n">>

Render(rows) == [i \in 1..Len(rows) |-> Line(rows[i])]

Rows(lo, hi) == UNION {[1..k -> Tokens] : k \in lo..hi}

\* row i of a well-formed file of the given pixel width
GoodRow(i, w) ==
    [j \in 1..(w + 1) |->
        IF j = 1 THEN (IF i % output_nodes = 0 THEN T0 ELSE T1)
        ELSE IF (i + j) % 2 = 0 THEN T255 ELSE T1]

UniformRows(n, w) == [i \in 1..n |-> GoodRow(i, w)]

\* training files that exercise the loader: uniform files of every width, and
\* well-formed files with one line replaced by an arbitrary line
LoaderRows ==
    {UniformRows(n, w) : n \in 0..MaxLines, w \in 0..(MaxFields - 1)}
    \cup
    UNION {{[UniformRows(n, input_nodes) EXCEPT ![i] = r] :
               i \in 1..n, r \in Rows(1, MaxFields)} : n \in 1..MaxLines}

LoaderFiles == {Render(rows) : rows \in LoaderRows}

\* files for whole runs: well-formed files of every length, a file of the
\* wrong width and a file with a non-numeric field
BadRows == <<[GoodRow(1, input_nodes) EXCEPT ![2] = Tx]>>

TrainFiles ==
    {Render(UniformRows(n, input_nodes)) : n \in 0..MaxTrain}
    \cup {Render(UniformRows(2, input_nodes - 1)), Render(BadRows)}

TestFiles ==
    {Render(UniformRows(n, input_nodes)) : n \in 0..MaxTest}
    \cup {Render(UniformRows(2, input_nodes - 1)), Render(BadRows)}

\* ---------------------------------------------------------------------
\* Arithmetic on floats, kept exact
\* ---------------------------------------------------------------------
Zero == [num |-> 0, den |-> 1]

Add(x, v) == [num |-> x.num + v * x.den, den |-> x.den]

Div(x, n) == [num |-> x.num, den |-> x.den * n]

Min(a, b) == IF a < b THEN a ELSE b

\* ---------------------------------------------------------------------
\* DataLoader(dataset, batch_size=batch_size): sequential sampler,
\* drop_last=False
\* ---------------------------------------------------------------------
Exhausted_DropLast(p, n) == p + batch_size > n

Exhausted(p, n) == p >= n

NextBatch(p, n) == [lo |-> p + 1, hi |-> Min(p + batch_size, n), loss |-> 0]

BatchLen(b) == b.hi - b.lo + 1

\* ---------------------------------------------------------------------
\* MnistMlp.forward and the criterion
\* ---------------------------------------------------------------------
\* Linear(in_features=inputnodes): the feature width must match
ShapeMismatch(ds, b) == Len(ds.features[b.lo]) # input_nodes

VerifyBatchSize_Off(mode, size) == FALSE

\* BatchNorm1d in training mode needs more than one value per channel
VerifyBatchSize(mode, size) == mode /\ size = 1

ForwardError(ds, b, mode) ==
    IF ShapeMismatch(ds, b) THEN "RuntimeError"
    ELSE IF VerifyBatchSize(mode, BatchLen(b)) THEN "ValueError"
    ELSE "none"

RunningAfterForward_Always(r, mode) == r + 1

\* BatchNorm1d updates its running statistics only in training mode
RunningAfterForward(r, mode) == IF mode THEN r + 1 ELSE r

\* CrossEntropyLoss: every target must be a class index
TargetError(ds, b) ==
    IF \E i \in b.lo..b.hi : ds.targets[i] \notin 0..(output_nodes - 1)
    THEN "IndexError" ELSE "none"

Classes == 0..(output_nodes - 1)

\* pred.eq(target.view_as(pred)).sum().item()
CountCorrect(pred, ds, b) ==
    Cardinality({i \in 1..BatchLen(b) : pred[i] = ds.targets[b.lo + i - 1]})

\* 100. * correct / len(test_loader.dataset)
Accuracy(c, total) == [num |-> 100 * c, den |-> total]

AppendLog_Replace(l, rec) == <<rec>>

\* logs.append({...})
AppendLog(l, rec) == Append(l, rec)

MoreEpochs_Short(e) == e < epochs - 1

\* for epoch in range(epochs)
MoreEpochs(e) == e < epochs

InitialCorrect_Keep(c) == c

\* correct = 0 at the start of every evaluation pass
InitialCorrect(c) == 0

\* ---------------------------------------------------------------------
\* The script
\* ---------------------------------------------------------------------
Abort(exc) ==
    /\ pc' = "Aborted"
    /\ error' = exc

Init ==
    /\ pc = "load_train"
    /\ train_file \in TrainFiles
    /\ test_file \in TestFiles
    /\ train_dataset = NoDataset
    /\ test_dataset = NoDataset
    /\ training = FALSE
    /\ weights = 0
    /\ grads = "clear"
    /\ running = 0
    /\ epoch = 0
    /\ pos = 0
    /\ batch = NextBatch(0, 0)
    /\ train_loss = Zero
    /\ test_loss = Zero
    /\ correct = 0
    /\ logs = <<>>
    /\ hist = <<>>
    /\ preds = <<>>
    /\ plotWritten = FALSE
    /\ weightsWritten = FALSE
    /\ error = "none"

\* train_dataset = MnistDataset(filepath="./mnist_train.csv")
LoadTrain ==
    /\ pc = "load_train"
    /\ \E ds \in {MnistDataset(train_file)} :
           IF ds.error # "none"
           THEN Abort(ds.error) /\ UNCHANGED train_dataset
           ELSE train_dataset' = ds /\ pc' = "load_test" /\ UNCHANGED error
    /\ UNCHANGED <<train_file, test_file, test_dataset, training, weights, grads,
                   running, epoch, pos, batch, train_loss, test_loss, correct,
                   logs, hist, preds, plotWritten, weightsWritten>>

\* test_dataset = MnistDataset(filepath="./mnist_test.csv")
LoadTest ==
    /\ pc = "load_test"
    /\ \E ds \in {MnistDataset(test_file)} :
           IF ds.error # "none"
           THEN Abort(ds.error) /\ UNCHANGED test_dataset
           ELSE test_dataset' = ds /\ pc' = "setup" /\ UNCHANGED error
    /\ UNCHANGED <<train_file, test_file, train_dataset, training, weights, grads,
                   running, epoch, pos, batch, train_loss, test_loss, correct,
                   logs, hist, preds, plotWritten, weightsWritten>>

\* loaders, model (a new Module is in training mode), criterion, optimizer,
\* logs = []
Setup ==
    /\ pc = "setup"
    /\ training' = TRUE
    /\ weights' = 0
    /\ running' = 0
    /\ grads' = "clear"
    /\ logs' = <<>>
    /\ pc' = "model_train"
    /\ UNCHANGED <<train_file, test_file, train_dataset, test_dataset, epoch, pos,
                   batch, train_loss, test_loss, correct, hist, preds,
                   plotWritten, weightsWritten, error>>

\* model.train(), once, before the epoch loop
ModelTrain ==
    /\ pc = "model_train"
    /\ training' = TRUE
    /\ pc' = "epoch_start"
    /\ UNCHANGED <<train_file, test_file, train_dataset, test_dataset, weights,
                   grads, running, epoch, pos, batch, train_loss, test_loss,
                   correct, logs, hist, preds, plotWritten, weightsWritten, error>>

\* for epoch in range(epochs): train_loss = 0
EpochStart ==
    /\ pc = "epoch_start"
    /\ IF MoreEpochs(epoch)
       THEN /\ train_loss' = Zero
            /\ pos' = 0
            /\ hist' = <<>>
            /\ pc' = "train_next"
       ELSE /\ pc' = "plot"
            /\ UNCHANGED <<train_loss, pos, hist>>
    /\ UNCHANGED <<train_file, test_file, train_dataset, test_dataset, training,
                   weights, grads, running, epoch, batch, test_loss, correct,
                   logs, preds, plotWritten, weightsWritten, error>>

\* for batch_idx, (features, target) in enumerate(train_loader):
\*     optimizer.zero_grad()
TrainNext ==
    /\ pc = "train_next"
    /\ IF Exhausted(pos, DatasetLen(train_dataset))
       THEN /\ pc' = "train_end"
            /\ UNCHANGED <<batch, pos, hist, grads>>
       ELSE LET b == NextBatch(pos, DatasetLen(train_dataset))
            IN  /\ batch' = b
                /\ pos' = b.hi
                /\ hist' = Append(hist, b)
                /\ grads' = "clear"
                /\ pc' = "train_forward"
    /\ UNCHANGED <<train_file, test_file, train_dataset, test_dataset, training,
                   weights, running, epoch, train_loss, test_loss, correct, logs,
                   preds, plotWritten, weightsWritten, error>>

\* output = model(features); loss = criterion(output, target)
\* train_loss += loss.item()
TrainForward ==
    /\ pc = "train_forward"
    /\ LET ferr == ForwardError(train_dataset, batch, training)
           terr == TargetError(train_dataset, batch)
       IN  IF ferr # "none"
           THEN Abort(ferr) /\ UNCHANGED <<running, train_loss, hist>>
           ELSE /\ running' = RunningAfterForward(running, training)
                /\ IF terr # "none"
                   THEN Abort(terr) /\ UNCHANGED <<train_loss, hist>>
                   ELSE \E loss \in LossValues :
                          /\ train_loss' = Add(train_loss, loss)
                          /\ hist' = [hist EXCEPT ![Len(hist)].loss = loss]
                          /\ pc' = "train_backward"
                          /\ UNCHANGED error
    /\ UNCHANGED <<train_file, test_file, train_dataset, test_dataset, training,
                   weights, grads, epoch, pos, batch, test_loss, correct, logs,
                   preds, plotWritten, weightsWritten>>

\* loss.backward()
TrainBackward ==
    /\ pc = "train_backward"
    /\ grads' = "computed"
    /\ pc' = "train_step"
    /\ UNCHANGED <<train_file, test_file, train_dataset, test_dataset, training,
                   weights, running, epoch, pos, batch, train_loss, test_loss,
                   correct, logs, hist, preds, plotWritten, weightsWritten, error>>

\* optimizer.step() and the progress line
TrainStep ==
    /\ pc = "train_step"
    /\ weights' = weights + 1
    /\ pc' = "train_next"
    /\ UNCHANGED <<train_file, test_file, train_dataset, test_dataset, training,
                   grads, running, epoch, pos, batch, train_loss, test_loss,
                   correct, logs, hist, preds, plotWritten, weightsWritten, error>>

\* train_loss /= len(train_loader.dataset)
TrainEnd ==
    /\ pc = "train_end"
    /\ IF DatasetLen(train_dataset) = 0
       THEN Abort("ZeroDivisionError") /\ UNCHANGED train_loss
       ELSE /\ train_loss' = Div(train_loss, DatasetLen(train_dataset))
            /\ pc' = "model_eval"
            /\ UNCHANGED error
    /\ UNCHANGED <<train_file, test_file, train_dataset, test_dataset, training,
                   weights, grads, running, epoch, pos, batch, test_loss, correct,
                   logs, hist, preds, plotWritten, weightsWritten>>

\* model.eval(); test_loss = 0; correct = 0
ModelEval ==
    /\ pc = "model_eval"
    /\ training' = FALSE
    /\ test_loss' = Zero
    /\ correct' = InitialCorrect(correct)
    /\ pos' = 0
    /\ hist' = <<>>
    /\ preds' = <<>>
    /\ pc' = "test_next"
    /\ UNCHANGED <<train_file, test_file, train_dataset, test_dataset, weights,
                   grads, running, epoch, batch, train_loss, logs, plotWritten,
                   weightsWritten, error>>

\* for features, target in test_loader:
TestNext ==
    /\ pc = "test_next"
    /\ IF Exhausted(pos, DatasetLen(test_dataset))
       THEN /\ pc' = "test_end"
            /\ UNCHANGED <<batch, pos, hist>>
       ELSE LET b == NextBatch(pos, DatasetLen(test_dataset))
            IN  /\ batch' = b
                /\ pos' = b.hi
                /\ hist' = Append(hist, b)
                /\ pc' = "test_forward"
    /\ UNCHANGED <<train_file, test_file, train_dataset, test_dataset, training,
                   weights, grads, running, epoch, train_loss, test_loss, correct,
                   logs, preds, plotWritten, weightsWritten, error>>

\* output = model(features); test_loss += criterion(output, target).item()
\* pred = output.argmax(dim=1, keepdim=True); correct += ...
TestForward ==
    /\ pc = "test_forward"
    /\ LET ferr == ForwardError(test_dataset, batch, training)
           terr == TargetError(test_dataset, batch)
       IN  IF ferr # "none"
           THEN Abort(ferr) /\ UNCHANGED <<running, test_loss, correct, hist, preds>>
           ELSE /\ running' = RunningAfterForward(running, training)
                /\ IF terr # "none"
                   THEN Abort(terr) /\ UNCHANGED <<test_loss, correct, hist, preds>>
                   ELSE \E loss \in LossValues, pred \in [1..BatchLen(batch) -> Classes] :
                          /\ test_loss' = Add(test_loss, loss)
                          /\ correct' = correct + CountCorrect(pred, test_dataset, batch)
                          /\ hist' = [hist EXCEPT ![Len(hist)].loss = loss]
                          /\ preds' = preds \o pred
                          /\ pc' = "test_next"
                          /\ UNCHANGED error
    /\ UNCHANGED <<train_file, test_file, train_dataset, test_dataset, training,
                   weights, grads, epoch, pos, batch, train_loss, logs,
                   plotWritten, weightsWritten>>

\* test_loss /= len(test_loader.dataset); accuracy = ...; logs.append({...})
\* hist and preds describe the pass in progress and end with it
TestEnd ==
    /\ pc = "test_end"
    /\ IF DatasetLen(test_dataset) = 0
       THEN Abort("ZeroDivisionError") /\ UNCHANGED <<test_loss, logs, epoch, hist, preds>>
       ELSE /\ test_loss' = Div(test_loss, DatasetLen(test_dataset))
            /\ logs' = AppendLog(logs,
                         [epoch |-> epoch + 1,
                          train_loss |-> train_loss,
                          test_loss |-> test_loss',
                          accuracy |-> Accuracy(correct, DatasetLen(test_dataset))])
            /\ epoch' = epoch + 1
            /\ hist' = <<>>
            /\ preds' = <<>>
            /\ pc' = "epoch_start"
            /\ UNCHANGED error
    /\ UNCHANGED <<train_file, test_file, train_dataset, test_dataset, training,
                   weights, grads, running, pos, batch, train_loss, correct,
                   plotWritten, weightsWritten>>

\* print(logs); plt.title(... logs[-1] ...); ...; plt.savefig(...)
Plot ==
    /\ pc = "plot"
    /\ IF logs = <<>>
       THEN Abort("IndexError") /\ UNCHANGED plotWritten
       ELSE plotWritten' = TRUE /\ pc' = "save" /\ UNCHANGED error
    /\ UNCHANGED <<train_file, test_file, train_dataset, test_dataset, training,
                   weights, grads, running, epoch, pos, batch, train_loss,
                   test_loss, correct, logs, hist, preds, weightsWritten>>

\* torch.save(model.state_dict(), "mnist_001.pth")
Save ==
    /\ pc = "save"
    /\ weightsWritten' = TRUE
    /\ pc' = "Done"
    /\ UNCHANGED <<train_file, test_file, train_dataset, test_dataset, training,
                   weights, grads, running, epoch, pos, batch, train_loss,
                   test_loss, correct, logs, hist, preds, plotWritten, error>>

Next ==
    \/ LoadTrain
    \/ LoadTest
    \/ Setup
    \/ ModelTrain
    \/ EpochStart
    \/ TrainNext
    \/ TrainForward
    \/ TrainBackward
    \/ TrainStep
    \/ TrainEnd
    \/ ModelEval
    \/ TestNext
    \/ TestForward
    \/ TestEnd
    \/ Plot
    \/ Save

Spec == Init /\ [][Next]_vars

\* The script is one thread that runs until it ends or raises.  Checked on
\* fewer files: no training lines, two full batches, a last batch of one;
\* no test lines, one test line, test lines of the wrong width.
FairTrainFiles ==
    {Render(UniformRows(n, input_nodes)) : n \in {0, 2 * batch_size, batch_size + 1}}

FairTestFiles ==
    {Render(UniformRows(n, input_nodes)) : n \in {0, 1}}
    \cup {Render(UniformRows(1, input_nodes - 1))}

FairInit ==
    /\ pc = "load_train"
    /\ train_file \in FairTrainFiles
    /\ test_file \in FairTestFiles
    /\ train_dataset = NoDataset
    /\ test_dataset = NoDataset
    /\ training = FALSE
    /\ weights = 0
    /\ grads = "clear"
    /\ running = 0
    /\ epoch = 0
    /\ pos = 0
    /\ batch = NextBatch(0, 0)
    /\ train_loss = Zero
    /\ test_loss = Zero
    /\ correct = 0
    /\ logs = <<>>
    /\ hist = <<>>
    /\ preds = <<>>
    /\ plotWritten = FALSE
    /\ weightsWritten = FALSE
    /\ error = "none"

FairSpec == FairInit /\ [][Next]_vars /\ WF_vars(Next)

\* the same script started on training files of arbitrary lines
LoaderInit ==
    /\ pc = "load_train"
    /\ train_file \in LoaderFiles
    /\ test_file = Render(UniformRows(1, input_nodes))
    /\ train_dataset = NoDataset
    /\ test_dataset = NoDataset
    /\ training = FALSE
    /\ weights = 0
    /\ grads = "clear"
    /\ running = 0
    /\ epoch = 0
    /\ pos = 0
    /\ batch = NextBatch(0, 0)
    /\ train_loss = Zero
    /\ test_loss = Zero
    /\ correct = 0
    /\ logs = <<>>
    /\ hist = <<>>
    /\ preds = <<>>
    /\ plotWritten = FALSE
    /\ weightsWritten = FALSE
    /\ error = "none"

LoaderSpec == LoaderInit /\ [][Next]_vars

\* ---------------------------------------------------------------------
\* Properties
\* ---------------------------------------------------------------------
Phase ==
    CASE pc \in {"load_train", "load_test", "setup", "model_train"} -> "Idle"
      [] pc = "epoch_start" -> IF epoch = 0 THEN "Idle" ELSE "EvaluatingEpoch"
      [] pc \in {"train_next", "train_forward", "train_backward", "train_step",
                 "train_end"} -> "TrainingEpoch"
      [] pc \in {"model_eval", "test_next", "test_forward", "test_end"} -> "EvaluatingEpoch"
      [] pc \in {"plot", "save", "Done"} -> "Done"
      [] pc = "Aborted" -> "Aborted"

RECURSIVE SamplesIn(_)
SamplesIn(h) == IF h = <<>> THEN 0 ELSE BatchLen(Head(h)) + SamplesIn(Tail(h))

RECURSIVE WeightedLossSum(_)
WeightedLossSum(h) ==
    IF h = <<>> THEN 0 ELSE Head(h).loss * BatchLen(Head(h)) + WeightedLossSum(Tail(h))

CeilDiv(n, b) == (n + b - 1) \div b

\* C1: every training batch is forwarded with the model in training mode and
\* every test batch with the model in evaluation mode, in every epoch.
C1_ModePerPass ==
    /\ pc = "train_forward" => training
    /\ pc = "test_forward" => ~training

\* C2: the recorded mean training loss of an epoch is the sum over its
\* training batches of batch_loss * batch_size, divided by the number of
\* training samples.
C2_WeightedMeanLoss ==
    pc = "model_eval" =>
        train_loss.num * DatasetLen(train_dataset)
            = WeightedLossSum(hist) * train_loss.den

C3_LogShape ==
    /\ Len(logs) = epoch
    /\ \A i \in 1..Len(logs) : logs[i].epoch = i
    /\ Phase = "Idle" => logs = <<>>
    /\ pc = "Done" => Len(logs) = epochs

C3_LogStep ==
    \/ logs' = logs
    \/ /\ Len(logs') = Len(logs) + 1
       /\ SubSeq(logs', 1, Len(logs)) = logs
       /\ pc = "test_end"

\* C3: the Training Log is append-only, grows by one record per epoch: empty
\* before the first epoch, k records with epoch indices 1..k after the k-th
\* evaluation pass, earlier records never changed, and exactly `epochs`
\* records when the run is Done.
C3_AppendOnlyLog == []C3_LogShape /\ [][C3_LogStep]_vars

C3_Witness == pc = "Done" /\ Len(logs) = epochs /\ logs[epochs].epoch = epochs

C4_PhaseStep ==
    \/ Phase' = Phase
    \/ Phase' = "Aborted"
    \/ /\ Phase = "Idle" /\ Phase' = "TrainingEpoch"
       /\ epoch = 0
    \/ /\ Phase = "TrainingEpoch" /\ Phase' = "EvaluatingEpoch"
       /\ SamplesIn(hist) = DatasetLen(train_dataset)
       /\ weights = (epoch + 1) * Len(hist)
    \/ /\ Phase = "EvaluatingEpoch" /\ Phase' = "TrainingEpoch"
       /\ pc = "epoch_start"
       /\ Len(logs) = epoch /\ epoch < epochs
    \/ /\ Phase = "EvaluatingEpoch" /\ Phase' = "Done"
       /\ pc = "epoch_start"
       /\ Len(logs) = epochs /\ epoch = epochs

\* the evaluation pass is left only with every test batch processed
C4_EvaluationLeft ==
    (pc \in {"test_next", "test_forward", "test_end"}
        /\ pc' \notin {"test_next", "test_forward", "test_end", "Aborted"})
    => /\ pc = "test_end" /\ pc' = "epoch_start"
       /\ SamplesIn(hist) = DatasetLen(test_dataset)

C4_WrittenOnlyInDone == (plotWritten \/ weightsWritten) => Phase = "Done"

\* C4: the loop follows Idle -> TrainingEpoch -> EvaluatingEpoch ->
\* TrainingEpoch -> ... -> Done; evaluation starts only after every training
\* batch of the epoch was processed, the next training pass only after every
\* test batch was processed; a run that raises no error eventually reaches
\* Done after exactly `epochs` pairs, and the plot and the weights file are
\* written only in Done.
C4_StateMachine ==
    /\ [][C4_PhaseStep /\ C4_EvaluationLeft]_vars
    /\ []C4_WrittenOnlyInDone
    /\ (<>(pc = "Aborted")
        \/ <>(pc = "Done" /\ epoch = epochs /\ plotWritten /\ weightsWritten))

C4_Witness ==
    pc = "Done" /\ epoch = epochs /\ Len(logs) = epochs /\ plotWritten /\ weightsWritten

PassComplete(n) ==
    /\ Len(hist) = CeilDiv(n, batch_size)
    /\ \A k \in 1..Len(hist) :
         /\ hist[k].lo = (IF k = 1 THEN 1 ELSE hist[k - 1].hi + 1)
         /\ hist[k].lo <= hist[k].hi
         /\ k < Len(hist) => BatchLen(hist[k]) = batch_size
         /\ k = Len(hist) =>
              /\ hist[k].hi = n
              /\ BatchLen(hist[k]) =
                    (IF n % batch_size = 0 THEN batch_size ELSE n % batch_size)

\* C5: a full pass over a dataset of N samples issues ceil(N / B) batches
\* over contiguous, in-order, non-overlapping index ranges covering every
\* sample once; every batch but the last has B samples, the last has
\* N mod B (or B when that is 0); the same in every epoch.
C5_Batching ==
    /\ pc = "train_end" => PassComplete(DatasetLen(train_dataset))
    /\ pc = "test_end" => PassComplete(DatasetLen(test_dataset))

C5_Witness ==
    /\ pc = "train_end" /\ epoch = 1 /\ Len(hist) > 1
    /\ DatasetLen(train_dataset) > batch_size
    /\ DatasetLen(train_dataset) % batch_size # 0

Matches(p, ds) == Cardinality({i \in 1..Len(p) : p[i] = ds.targets[i]})

C6_Range ==
    \A i \in 1..Len(logs) :
        /\ logs[i].accuracy.den = DatasetLen(test_dataset)
        /\ 0 <= logs[i].accuracy.num
        /\ logs[i].accuracy.num <= 100 * logs[i].accuracy.den

C6_Record ==
    (pc = "test_end" /\ pc' = "epoch_start") =>
        LET total == DatasetLen(test_dataset)
            accuracy == logs'[Len(logs')].accuracy
        IN  /\ Len(preds) = total
            /\ correct = Matches(preds, test_dataset)
            /\ accuracy.num * total = 100 * Matches(preds, test_dataset) * accuracy.den
            /\ (\A i \in 1..Len(preds) : preds[i] = 0) =>
                 accuracy.num * total
                    = 100 * Cardinality({i \in 1..total : test_dataset.targets[i] = 0})
                          * accuracy.den

\* C6: in every record accuracy = 100 * correct / total, correct being the
\* number of test samples of that epoch alone whose predicted class is the
\* true label, so 0 <= accuracy <= 100; always predicting 0 scores the
\* share of zeros among the labels.
C6_Accuracy == []C6_Range /\ [][C6_Record]_vars

C6_Witness ==
    /\ pc = "epoch_start" /\ epoch = 2
    /\ logs[1].accuracy.num > 0
    /\ logs[2].accuracy.num > 0
    /\ logs[2].accuracy.num < 100 * logs[2].accuracy.den

CommaCount(line) == Cardinality({i \in 1..Len(line) : line[i] = ","})

\* C7: constructing a Dataset fails whenever some line does not split into
\* exactly input_nodes + 1 fields, also when all lines have the same wrong
\* number of fields.
C7_FieldCountChecked ==
    (/\ pc # "load_train"
     /\ \E i \in 1..Len(train_file) : CommaCount(train_file[i]) + 1 # input_nodes + 1)
    => train_dataset = NoDataset

\* C8 as stated: weights, biases, scale/shift and the running statistics
\* change only in the optimizer step of a training batch.
C8_OnlyOptimizerStep ==
    [][(weights' # weights \/ running' # running) => pc = "train_step"]_vars

\* C8: the learnable parameters change only in the optimizer step of a
\* training batch, the running statistics only in the forward computation
\* of a training batch made in training mode; no step of an evaluation pass
\* and no backward computation changes either.
C8_ParameterFrame ==
    [][/\ weights' # weights => pc = "train_step"
       /\ running' # running => (pc = "train_forward" /\ training)]_vars

C8_Witness ==
    /\ pc = "test_next" /\ Len(hist) > 0
    /\ weights > 0 /\ running > 0

HasLetter(file) == \E i \in 1..Len(file) : \E k \in 1..Len(file[i]) : file[i][k] = "x"

C9_ErrorCase ==
    \/ pc = "load_train" /\ HasLetter(train_file)
    \/ pc = "load_test" /\ HasLetter(test_file)
    \/ /\ pc = "train_forward"
       /\ \/ Len(GetItem(train_dataset, batch.lo)[1]) # input_nodes
          \/ training /\ BatchLen(batch) = 1
    \/ /\ pc = "test_forward"
       /\ Len(GetItem(test_dataset, batch.lo)[1]) # input_nodes

C9_AbortStep ==
    /\ C9_ErrorCase =>
         /\ pc' = "Aborted" /\ error' # "none"
         /\ UNCHANGED <<logs, weights, running, train_loss, test_loss, correct,
                        plotWritten, weightsWritten>>
    /\ pc # "Aborted"

C9_AbortedState ==
    pc = "Aborted" => error # "none" /\ ~plotWritten /\ ~weightsWritten

\* C9: a malformed row while loading, a batch of the wrong feature width or
\* a training-mode batch of one sample aborts the run where it occurs: no
\* later batch is processed, no record is appended, nothing is retried and
\* neither the plot nor the weights file is written.
C9_AbortOnError == [][C9_AbortStep]_vars /\ []C9_AbortedState

C9_Witness ==
    /\ pc = "Aborted" /\ error = "ValueError"
    /\ weights > 0 /\ BatchLen(batch) = 1 /\ training

WellFormed(rows) ==
    \A i \in 1..Len(rows) :
        /\ Len(rows[i]) = input_nodes + 1
        /\ \A j \in 1..Len(rows[i]) : rows[i][j] \in NumericTokens
        /\ TokenValue(rows[i][1]) \in 0..9

WellFormedRows == {rows \in LoaderRows : WellFormed(rows)}

C10_Loaded(rows) ==
    /\ train_dataset.error = "none"
    /\ DatasetLen(train_dataset) = Len(rows)
    /\ \A i \in 1..Len(rows) :
         LET item == GetItem(train_dataset, i)
         IN  /\ item[2] = TokenValue(rows[i][1])
             /\ item[2] \in 0..9
             /\ Len(item[1]) = input_nodes
             /\ \A j \in 1..input_nodes :
                  /\ item[1][j].den = 255
                  /\ item[1][j].num = TokenValue(rows[i][j + 1])
                  /\ 0 <= item[1][j].num /\ item[1][j].num <= item[1][j].den

C10_Contents ==
    \A rows \in WellFormedRows :
        (train_file = Render(rows) /\ pc # "load_train") => C10_Loaded(rows)

C10_Frozen ==
    /\ pc # "load_train" => train_dataset' = train_dataset
    /\ pc \notin {"load_train", "load_test"} => test_dataset' = test_dataset

\* C10: a file of well-formed rows gives a Dataset as long as the file, whose
\* i-th item is the i-th line's label and that line's pixels each divided by
\* 255, in order, so features lie in [0,1] and labels in [0,9]; the contents
\* never change after construction.
C10_WellFormedFile == []C10_Contents /\ [][C10_Frozen]_vars

C10_Witness ==
    /\ pc = "Done"
    /\ DatasetLen(train_dataset) = 2
    /\ GetItem(train_dataset, 1)[2] = 0
    /\ GetItem(train_dataset, 1)[1][1].num = 255
    /\ GetItem(train_dataset, 1)[1][2].num = 0

====
